---- MODULE Spec2Model ----
(***************************************************************************)
(* A model of pydantic_walk_core_schema.walk_core_schema: the recursive    *)
(* traversal of a CoreSchema (a tree of Python dicts) by _WalkCoreSchema.  *)
(*                                                                         *)
(* The Python heap is modelled explicitly: `heap` is a sequence of dict    *)
(* objects, an object's identity is its index.  A dict is a function from  *)
(* its keys to values; a value is a record [kind, items] whose items are   *)
(* elements [key, id, lab, tup]: id is the identity of a dict (0 when the  *)
(* element is a plain string), lab a string, tup marks a (schema, label)   *)
(* tuple of a union, key the key of an entry of a nested mapping.          *)
(* Lists and nested mappings are never mutated in place by the code (they  *)
(* are always rebuilt), so they are values; dicts are heap objects.        *)
(*                                                                         *)
(* The interpreter of Python calls is a stack of frames; every action is   *)
(* one step of one function of the source.                                 *)
(***************************************************************************)
EXTENDS Integers, Sequences, FiniteSets, TLC

VARIABLES heap,    \* the dict objects, by identity
          org,     \* ghost: for each object the input object it descends from (0: none)
          heap0,   \* ghost: the heap as the caller handed it over
          copy,    \* the copy argument of walk_core_schema
          tf,      \* the caller's transform f: node type class -> behaviour
          stack,   \* the Python call stack
          ret,     \* the value just returned to the top frame (0: none)
          status,  \* "init", "running", "done", "error"
          result,  \* what walk_core_schema returned
          nwalk,   \* ghost: number of _walk invocations so far
          log,     \* ghost: the invocations of f, in order
          wlog,    \* ghost: the completed _walk invocations
          dlog     \* ghost: the completed handle_definitions_schema invocations

vars == <<heap, org, heap0, copy, tf, stack, ret, status, result, nwalk, log, wlog, dlog>>

\* Number of entries given to the list-like children of the input trees.
MaxItems == 2

---------------------------------------------------------------------------
(* Values and dicts *)

El(id) == [key |-> "", id |-> id, lab |-> "", tup |-> FALSE]
Ref(id) == [kind |-> "node", items |-> <<El(id)>>]
Atom(s) == [kind |-> "atom", items |-> <<[key |-> "", id |-> 0, lab |-> s, tup |-> FALSE]>>]
ListOf(ids) == [kind |-> "list", items |-> [i \in 1..Len(ids) |-> El(ids[i])]]

Obj(t) == "type" :> Atom(t)
Has(o, k) == k \in DOMAIN o
TypeOf(o) == o["type"].items[1].lab
ChildOf(o, k) == o[k].items[1].id
\* Python truthiness of a dict: a dict is falsy exactly when it is empty.
Truthy(h, id) == DOMAIN h[id] # {}

KeyName(i) == <<"a", "b", "c", "d", "e", "g">>[i]
Ids(a, b) == [i \in 1..(b - a + 1) |-> a + i - 1]

ShiftVal(v, k) ==
  [v EXCEPT !.items = [i \in 1..Len(v.items) |->
      IF v.items[i].id = 0 THEN v.items[i]
      ELSE [v.items[i] EXCEPT !.id = @ + k]]]
ShiftObj(o, k) == [a \in DOMAIN o |-> ShiftVal(o[a], k)]

MapOf(ids) ==
  [kind |-> "map",
   items |-> [i \in 1..Len(ids) |-> [key |-> KeyName(i), id |-> ids[i], lab |-> "", tup |-> FALSE]]]

---------------------------------------------------------------------------
(* The input trees.  A template is a heap whose root is object 1 and whose *)
(* one open child is the object after its last one; a subtree is a heap    *)
(* whose root is object 1.  Tree(t, s) plugs s into t.                     *)

Leaf == Obj("int")
Leaves(n) == [i \in 1..n |-> Leaf]
\* m records of the given key, each with one child: the last child is the open one.
FieldBlock(base, m, rec, sub) ==
  [i \in 1..m |-> rec @@ (sub :> Ref(base + m + i))] \o Leaves(m - 1)

T_root == << >>
T_nullable == << Obj("nullable") @@ ("schema" :> Ref(2)) >>
T_model == << Obj("model") @@ ("schema" :> Ref(2)) @@ ("ref" :> Atom("m")) @@ ("serialization" :> Ref(3)),
              Leaf,
              Obj("function-wrap") @@ ("schema" :> Ref(4)) @@ ("return_schema" :> Ref(5)),
              Leaf >>
T_list == << Obj("list") @@ ("items_schema" :> Ref(2)) >>
T_set == << Obj("set") @@ ("items_schema" :> Ref(2)) >>
T_frozenset == << Obj("frozenset") @@ ("items_schema" :> Ref(2)) >>
T_generator == << Obj("generator") @@ ("items_schema" :> Ref(2)) >>
T_tuple == << Obj("tuple") @@ ("items_schema" :> ListOf(Ids(2, MaxItems + 1))) >> \o Leaves(MaxItems - 1)
T_dict == << Obj("dict") @@ ("keys_schema" :> Ref(2)) @@ ("values_schema" :> Ref(3)), Leaf >>
T_after == << Obj("function-after") @@ ("schema" :> Ref(2)) >>
T_before == << Obj("function-before") @@ ("schema" :> Ref(2)) @@ ("json_schema_input_schema" :> Ref(3)), Leaf >>
T_plain == << Obj("function-plain") @@ ("json_schema_input_schema" :> Ref(2)) >>
T_wrap == << Obj("function-wrap") @@ ("schema" :> Ref(3)) @@ ("json_schema_input_schema" :> Ref(2)), Leaf >>
T_union ==
  << Obj("union") @@ ("choices" :>
       [kind |-> "list",
        items |-> [i \in 1..MaxItems |->
                     [key |-> "", id |-> i + 1, lab |-> IF i = 1 THEN "a" ELSE "", tup |-> (i = 1)]]]) >>
  \o Leaves(MaxItems - 1)
T_tagged ==
  << Obj("tagged-union") @@ ("choices" :>
       [kind |-> "map",
        items |-> [i \in 1..(MaxItems + 1) |->
                     IF i = 1 THEN [key |-> "z", id |-> 0, lab |-> "a", tup |-> FALSE]
                     ELSE [key |-> KeyName(i - 1), id |-> i, lab |-> "", tup |-> FALSE]]]) >>
  \o Leaves(MaxItems - 1)
T_chain == << Obj("chain") @@ ("steps" :> ListOf(Ids(2, MaxItems + 1))) >> \o Leaves(MaxItems - 1)
T_lax == << Obj("lax-or-strict") @@ ("lax_schema" :> Ref(3)) @@ ("strict_schema" :> Ref(2)), Leaf >>
T_json == << Obj("json-or-python") @@ ("json_schema" :> Ref(2)) @@ ("python_schema" :> Ref(3)), Leaf >>
T_model_fields ==
  << Obj("model-fields") @@ ("extras_schema" :> Ref(2)) @@ ("computed_fields" :> ListOf(<<3>>))
       @@ ("fields" :> MapOf(Ids(5, 4 + MaxItems))),
     Leaf,
     Obj("computed-field") @@ ("return_schema" :> Ref(4)),
     Leaf >>
  \o FieldBlock(4, MaxItems, Obj("model-field"), "schema")
T_typed_dict ==
  << Obj("typed-dict") @@ ("computed_fields" :> ListOf(<< >>))
       @@ ("fields" :> MapOf(Ids(2, 1 + MaxItems))) >>
  \o FieldBlock(1, MaxItems, Obj("typed-dict-field"), "schema")
T_dataclass_args ==
  << Obj("dataclass-args") @@ ("computed_fields" :> ListOf(<<2>>))
       @@ ("fields" :> ListOf(Ids(4, 3 + MaxItems))),
     Obj("computed-field") @@ ("return_schema" :> Ref(3)),
     Leaf >>
  \o FieldBlock(3, MaxItems, Obj("dataclass-field"), "schema")
T_arguments ==
  << Obj("arguments") @@ ("arguments_schema" :> ListOf(Ids(3, 2 + MaxItems)))
       @@ ("var_kwargs_schema" :> Ref(2)),
     Leaf >>
  \o FieldBlock(2, MaxItems, "name" :> Atom("p"), "schema")
T_call ==
  << Obj("call") @@ ("arguments_schema" :> Ref(2)) @@ ("return_schema" :> Ref(6)),
     Obj("arguments") @@ ("arguments_schema" :> ListOf(<<3>>)) @@ ("var_args_schema" :> Ref(5)),
     ("name" :> Atom("p")) @@ ("schema" :> Ref(4)),
     Leaf,
     Leaf >>

Placeholder == Obj("definition-ref") @@ ("schema_ref" :> Atom("x")) @@ ("ref" :> Atom("y"))
D_empty == << Obj("definitions") @@ ("definitions" :> ListOf(<< >>)) @@ ("schema" :> Ref(2)) >>
D_meta == << Obj("definitions") @@ ("definitions" :> ListOf(<< >>)) @@ ("schema" :> Ref(2))
               @@ ("metadata" :> Atom("m")) >>
D_ref == << Obj("definitions") @@ ("definitions" :> ListOf(<<2>>)) @@ ("schema" :> Ref(3)),
            Obj("str") @@ ("ref" :> Atom("x")) >>
D_noref == << Obj("definitions") @@ ("definitions" :> ListOf(<<2>>)) @@ ("schema" :> Ref(3)),
              Obj("str") >>
D_ph == << Obj("definitions") @@ ("definitions" :> ListOf(<<2>>)) @@ ("schema" :> Ref(3)),
           Placeholder >>
D_mix == << Obj("definitions") @@ ("definitions" :> ListOf(<<2, 3, 4>>)) @@ ("schema" :> Ref(6)),
            Obj("str"),
            Placeholder,
            Obj("nullable") @@ ("ref" :> Atom("x")) @@ ("schema" :> Ref(5)),
            Leaf >>
D_entry == << Obj("definitions") @@ ("definitions" :> ListOf(<<3>>)) @@ ("schema" :> Ref(2)),
              Leaf >>

S_leaf == << Leaf >>
S_ser == << Obj("str") @@ ("ref" :> Atom("r")) @@ ("serialization" :> Ref(2)),
            Obj("function-wrap") @@ ("schema" :> Ref(3)) @@ ("return_schema" :> Ref(4)),
            Leaf,
            Leaf >>
S_ser_plain == << Obj("str") @@ ("serialization" :> Ref(2)), Obj("to-string") >>
S_list == << Obj("list") @@ ("ref" :> Atom("l")) @@ ("items_schema" :> Ref(2)), Leaf >>
S_collapse == << Obj("definitions") @@ ("definitions" :> ListOf(<< >>)) @@ ("schema" :> Ref(2)),
                 Obj("str") @@ ("serialization" :> Ref(3)),
                 Obj("function-wrap") @@ ("schema" :> Ref(4)),
                 Obj("list") @@ ("items_schema" :> Ref(5)),
                 Leaf >>
S_unknown == << Obj("mystery") @@ ("schema" :> Ref(2)), Leaf >>

Tree(t, s) == t \o [i \in 1..Len(s) |-> ShiftObj(s[i], Len(t))]

ShapeTemplates ==
  { T_nullable, T_model, T_list, T_set, T_frozenset, T_generator, T_tuple, T_dict, T_after,
    T_before, T_plain, T_wrap, T_union, T_tagged, T_chain, T_lax, T_json, T_model_fields,
    T_typed_dict, T_dataclass_args, T_arguments, T_call }
DefsTemplates == { D_empty, D_meta, D_ref, D_noref, D_ph, D_mix, D_entry }
Subtrees == { S_leaf, S_ser, S_ser_plain, S_list, S_collapse, S_unknown }

Trees ==
  { Tree(t, S_ser) : t \in ShapeTemplates }
  \cup { Tree(t, s) : t \in DefsTemplates \cup {T_root, T_nullable}, s \in Subtrees }

---------------------------------------------------------------------------
(* The caller's transform f.  It never writes to a dict it is handed.  It  *)
(* decides by the type of the node what to do:                             *)
(*   "recurse": return recurse(node, f)                                    *)
(*   "keep":    return node                                                *)
(*   "fresh":   return {"type": "any"}                                     *)
(*   "strip":   r = recurse(node, f); return {k: v for k in r if k != ref} *)
(*   "twice":   recurse(node, f); return recurse(node, f)                  *)

Behaviours == {"recurse", "keep", "fresh", "strip", "twice"}
Classes == {"int", "str", "other"}
Class(t) == IF t \in {"int", "str"} THEN t ELSE "other"
\* A leaf has nothing to descend into twice and no ref to strip; the transform
\* that descends twice leaves the leaves alone.
Transforms ==
  { t \in [Classes -> Behaviours] :
      /\ t["int"] \in {"recurse", "keep", "fresh"} /\ t["str"] # "twice"
      /\ t["other"] = "twice" => (t["int"] = "recurse" /\ t["str"] \in {"recurse", "strip"}) }

---------------------------------------------------------------------------
(* _WalkCoreSchema: the registry and the shape handlers.                   *)
(* A handler is the sequence of its child operations, in source order:     *)
(*   key    the attribute of the schema that is read and written back      *)
(*   guard  "always": schema[key]                                          *)
(*          "in": key in schema        "notnone": schema.get(key) is not None *)
(*          "truthy": schema.get(key)  "default": schema.get(key, ())      *)
(*   kind   "node": one schema; "list" / "map": a rebuilt list / dict      *)
(*   sub    "": the entries are schemas; else the entries are records that *)
(*          are copied and whose attribute sub is the schema walked        *)
(*   skip   the rebuilt value is written back only when it is not empty    *)

Op(key, guard, kind, sub, skip) ==
  [key |-> key, guard |-> guard, kind |-> kind, sub |-> sub, skip |-> skip]

\* The members of core_schema.CoreSchemaType (pydantic_core).
CoreSchemaType ==
  { "invalid", "any", "none", "bool", "int", "float", "decimal", "str", "bytes", "date", "time",
    "datetime", "timedelta", "literal", "enum", "is-instance", "is-subclass", "callable", "list",
    "tuple", "set", "frozenset", "generator", "dict", "function-after", "function-before",
    "function-wrap", "function-plain", "default", "nullable", "union", "tagged-union", "chain",
    "lax-or-strict", "json-or-python", "typed-dict", "model-fields", "model", "dataclass-args",
    "dataclass", "arguments", "call", "custom-error", "json", "url", "multi-host-url",
    "definitions", "definition-ref", "uuid", "complex" }

\* The types for which the class defines a method handle_<type>_schema.
HandleMethods ==
  { "definitions", "list", "set", "frozenset", "generator", "tuple", "dict", "function-after",
    "function-before", "function-plain", "function-wrap", "union", "tagged-union", "chain",
    "lax-or-strict", "json-or-python", "model-fields", "typed-dict", "dataclass-args",
    "arguments", "call" }

_build_schema_type_to_method ==
  [key \in CoreSchemaType |-> IF key \in HandleMethods THEN key ELSE "_handle_other_schemas"]

\* A faulty variant: the default handler descends into the wrong attribute
OtherSchemasWalksItems == << Op("items_schema", "notnone", "node", "", FALSE) >>
_handle_other_schemas == << Op("schema", "notnone", "node", "", FALSE) >>
\* A faulty variant: the sidecar's return_schema is walked before its schema
SerSchemasReturnFirst ==
  << Op("return_schema", "notnone", "node", "", FALSE), Op("schema", "notnone", "node", "", FALSE) >>
_handle_ser_schemas ==
  << Op("schema", "notnone", "node", "", FALSE), Op("return_schema", "notnone", "node", "", FALSE) >>
handle_list_schema == << Op("items_schema", "notnone", "node", "", FALSE) >>
handle_set_schema == << Op("items_schema", "notnone", "node", "", FALSE) >>
handle_frozenset_schema == << Op("items_schema", "notnone", "node", "", FALSE) >>
handle_generator_schema == << Op("items_schema", "notnone", "node", "", FALSE) >>
handle_tuple_schema == << Op("items_schema", "always", "list", "", FALSE) >>
handle_dict_schema ==
  << Op("keys_schema", "notnone", "node", "", FALSE), Op("values_schema", "truthy", "node", "", FALSE) >>
handle_function_after_schema == << Op("schema", "always", "node", "", FALSE) >>
handle_function_before_schema ==
  << Op("schema", "always", "node", "", FALSE),
     Op("json_schema_input_schema", "in", "node", "", FALSE) >>
handle_function_plain_schema == << Op("json_schema_input_schema", "in", "node", "", FALSE) >>
handle_function_wrap_schema ==
  << Op("schema", "in", "node", "", FALSE), Op("json_schema_input_schema", "in", "node", "", FALSE) >>
handle_union_schema == << Op("choices", "always", "list", "", FALSE) >>
handle_tagged_union_schema == << Op("choices", "always", "map", "", FALSE) >>
handle_chain_schema == << Op("steps", "always", "list", "", FALSE) >>
handle_lax_or_strict_schema ==
  << Op("lax_schema", "always", "node", "", FALSE), Op("strict_schema", "always", "node", "", FALSE) >>
handle_json_or_python_schema ==
  << Op("json_schema", "always", "node", "", FALSE), Op("python_schema", "always", "node", "", FALSE) >>
handle_model_fields_schema ==
  << Op("extras_schema", "notnone", "node", "", FALSE),
     Op("computed_fields", "default", "list", "return_schema", TRUE),
     Op("fields", "always", "map", "schema", FALSE) >>
handle_typed_dict_schema ==
  << Op("extras_schema", "notnone", "node", "", FALSE),
     Op("computed_fields", "default", "list", "return_schema", TRUE),
     Op("fields", "always", "map", "schema", FALSE) >>
handle_dataclass_args_schema ==
  << Op("computed_fields", "default", "list", "return_schema", TRUE),
     Op("fields", "always", "list", "schema", FALSE) >>
handle_arguments_schema ==
  << Op("arguments_schema", "always", "list", "schema", FALSE),
     Op("var_args_schema", "in", "node", "", FALSE),
     Op("var_kwargs_schema", "in", "node", "", FALSE) >>
handle_call_schema ==
  << Op("arguments_schema", "always", "node", "", FALSE), Op("return_schema", "in", "node", "", FALSE) >>

\* The body of the method the registry holds under a name.
Method(name) ==
  CASE name = "list" -> handle_list_schema
    [] name = "set" -> handle_set_schema
    [] name = "frozenset" -> handle_frozenset_schema
    [] name = "generator" -> handle_generator_schema
    [] name = "tuple" -> handle_tuple_schema
    [] name = "dict" -> handle_dict_schema
    [] name = "function-after" -> handle_function_after_schema
    [] name = "function-before" -> handle_function_before_schema
    [] name = "function-plain" -> handle_function_plain_schema
    [] name = "function-wrap" -> handle_function_wrap_schema
    [] name = "union" -> handle_union_schema
    [] name = "tagged-union" -> handle_tagged_union_schema
    [] name = "chain" -> handle_chain_schema
    [] name = "lax-or-strict" -> handle_lax_or_strict_schema
    [] name = "json-or-python" -> handle_json_or_python_schema
    [] name = "model-fields" -> handle_model_fields_schema
    [] name = "typed-dict" -> handle_typed_dict_schema
    [] name = "dataclass-args" -> handle_dataclass_args_schema
    [] name = "arguments" -> handle_arguments_schema
    [] name = "call" -> handle_call_schema
    [] OTHER -> _handle_other_schemas

\* _copy_schema: the identity it returns, and the heap after it.
\* A faulty variant: the copy flag is ignored
CopyAlways(h, id) == Len(h) + 1
_copy_schema(h, id) == IF copy THEN Len(h) + 1 ELSE id
CopyHeap(h, id) == IF _copy_schema(h, id) = id THEN h ELSE Append(h, h[id])
CopyOrg(h, o, id) == IF _copy_schema(h, id) = id THEN o ELSE Append(o, o[id])

\* d[key] = val
SetItem(h, id, key, val) == [h EXCEPT ![id] = (key :> val) @@ @]

---------------------------------------------------------------------------
(* The call stack *)

\* ghost: where a call of walk was made: in which _walk invocation, for which
\* attribute and which entry of it, of a schema of which type, and whether by
\* _handle_ser_schemas.
Site(wid, typ, key, idx, side) ==
  [wid |-> wid, typ |-> typ, key |-> key, idx |-> idx, side |-> side]
RootSite == Site(0, "", "", 0, FALSE)

Frame0 ==
  [kind |-> "", node |-> 0, rec |-> "", beh |-> "", pc |-> "", wid |-> 0, side |-> FALSE,
   plan |-> << >>, pi |-> 0, items |-> << >>, i |-> 0, acc |-> << >>, cur |-> 0,
   site |-> RootSite, res |-> << >>, before |-> Obj("")]

Top == stack[Len(stack)]
Pop == SubSeq(stack, 1, Len(stack) - 1)
SetTop(fr) == [stack EXCEPT ![Len(stack)] = fr]
Running(kind) == status = "running" /\ stack # << >> /\ Top.kind = kind

\* A call f(schema, recurse): the frame of the caller's transform.
CallF(schema, rec, site) ==
  [Frame0 EXCEPT !.kind = "f", !.node = schema, !.rec = rec, !.pc = "start", !.site = site]

\* walk(schema, f): return f(schema, self._walk)
walk(schema, site) == CallF(schema, "_walk", site)

\* A call self._walk(schema, f)
Call_walk(schema, wid) ==
  [Frame0 EXCEPT !.kind = "_walk", !.node = schema, !.pc = "dispatch", !.wid = wid]

\* A call of a shape handler (or of _handle_ser_schemas) on the dict `schema`.
CallHandler(schema, plan, wid, side) ==
  [Frame0 EXCEPT !.kind = "handler", !.node = schema, !.plan = plan, !.pi = 1, !.pc = "op",
                 !.wid = wid, !.side = side]

\* A call handle_definitions_schema(schema, f)
CallDefinitions(h, schema, wid) ==
  [Frame0 EXCEPT !.kind = "definitions", !.node = schema, !.items = h[schema]["definitions"].items,
                 !.i = 1, !.pc = "loop", !.wid = wid, !.before = h[schema]]

\* What the bound continuation `recurse` of an f frame calls.
Recurse(fr) ==
  IF fr.rec = "walk" THEN walk(fr.node, fr.site) ELSE Call_walk(fr.node, nwalk + 1)

FSites(st) ==
  LET fs == SelectSeq(st, LAMBDA fr : fr.kind = "f")
  IN [k \in 1..Len(fs) |-> fs[k].site]

\* ghost: the origins of the children of the serialization of a node
SidecarChildren(h, o, id) ==
  IF Has(h[id], "serialization")
  THEN LET ser == h[ChildOf(h[id], "serialization")]
       IN {o[ChildOf(ser, k)] : k \in {"schema", "return_schema"} \cap DOMAIN ser}
  ELSE {}

---------------------------------------------------------------------------
(* Init and the actions *)

Init ==
  /\ heap \in Trees
  /\ heap0 = heap
  /\ org = [i \in 1..Len(heap) |-> i]
  /\ copy \in BOOLEAN
  /\ tf \in Transforms
  /\ stack = << >>
  /\ ret = 0
  /\ status = "init"
  /\ result = 0
  /\ nwalk = 0
  /\ log = << >>
  /\ wlog = << >>
  /\ dlog = << >>

\* walk_core_schema(schema, f, copy):
\*   return f(schema.copy() if copy else schema, _dispatch if copy else _dispatch_no_copy)
\* where _dispatch is the bound method walk.
walk_core_schema ==
  /\ status = "init"
  /\ heap' = CopyHeap(heap, 1)
  /\ org' = CopyOrg(heap, org, 1)
  /\ stack' = << CallF(_copy_schema(heap, 1), "walk", RootSite) >>
  /\ status' = "running"
  /\ UNCHANGED <<heap0, copy, tf, ret, result, nwalk, log, wlog, dlog>>

\* walk_core_schema returns what f returned.
Return ==
  /\ status = "running" /\ stack = << >> /\ ret # 0
  /\ status' = "done"
  /\ result' = ret
  /\ UNCHANGED <<heap, org, heap0, copy, tf, stack, ret, nwalk, log, wlog, dlog>>

\* The transform is entered.
FCall ==
  /\ Running("f") /\ Top.pc = "start"
  /\ LET fr == Top
         b == tf[Class(TypeOf(heap[fr.node]))]
     IN /\ log' = Append(log, [org |-> org[fr.node], node |-> fr.node, beh |-> b, rec |-> fr.rec,
                               path |-> FSites(stack),
                               sc |-> SidecarChildren(heap, org, fr.node)])
        /\ IF b = "keep"
           THEN /\ stack' = Pop /\ ret' = fr.node
                /\ UNCHANGED <<heap, org, nwalk>>
           ELSE IF b = "fresh"
           THEN /\ heap' = Append(heap, Obj("any")) /\ org' = Append(org, 0)
                /\ stack' = Pop /\ ret' = Len(heap) + 1
                /\ UNCHANGED nwalk
           ELSE /\ stack' = Append(SetTop([fr EXCEPT !.beh = b, !.pc = "r1"]), Recurse(fr))
                /\ nwalk' = IF fr.rec = "walk" THEN nwalk ELSE nwalk + 1
                /\ UNCHANGED <<heap, org, ret>>
  /\ UNCHANGED <<heap0, copy, tf, status, result, wlog, dlog>>

\* recurse has returned to the transform.
FResume ==
  /\ Running("f") /\ Top.pc \in {"r1", "r2"} /\ ret # 0
  /\ LET fr == Top
     IN IF fr.beh = "twice" /\ fr.pc = "r1"
        THEN /\ stack' = Append(SetTop([fr EXCEPT !.pc = "r2"]), Recurse(fr))
             /\ nwalk' = IF fr.rec = "walk" THEN nwalk ELSE nwalk + 1
             /\ ret' = 0
             /\ UNCHANGED <<heap, org>>
        ELSE IF fr.beh = "strip"
        THEN /\ heap' = Append(heap, [k \in DOMAIN heap[ret] \ {"ref"} |-> heap[ret][k]])
             /\ org' = Append(org, org[ret])
             /\ stack' = Pop /\ ret' = Len(heap) + 1
             /\ UNCHANGED nwalk
        ELSE /\ stack' = Pop
             /\ UNCHANGED <<heap, org, ret, nwalk>>
  /\ UNCHANGED <<heap0, copy, tf, status, result, log, wlog, dlog>>

\* _walk, first statement up to the call of the handler:
\*   self._schema_type_to_method[schema["type"]](self._copy_schema(schema), f)
\* The registry is a dict: a type that is not one of its keys raises KeyError,
\* which nothing catches.
Walk_dispatch ==
  /\ Running("_walk") /\ Top.pc = "dispatch"
  /\ LET fr == Top
         t == TypeOf(heap[fr.node])
         c == _copy_schema(heap, fr.node)
         h1 == CopyHeap(heap, fr.node)
     IN IF t \notin DOMAIN _build_schema_type_to_method
        THEN /\ status' = "error" /\ stack' = << >>
             /\ UNCHANGED <<heap, org>>
        ELSE /\ heap' = h1
             /\ org' = CopyOrg(heap, org, fr.node)
             /\ stack' = Append(SetTop([fr EXCEPT !.pc = "handled", !.before = h1[c]]),
                                IF _build_schema_type_to_method[t] = "definitions"
                                THEN CallDefinitions(h1, c, fr.wid)
                                ELSE CallHandler(c, Method(_build_schema_type_to_method[t]),
                                                 fr.wid, FALSE))
             /\ UNCHANGED status
  /\ UNCHANGED <<heap0, copy, tf, ret, result, nwalk, log, wlog, dlog>>

\* ghost: a completed _walk: its argument, the dict as the handler got it, what
\* it returned and the dict returned as it is then.
WalkDone(fr, h, out) ==
  [wid |-> fr.wid, arg |-> fr.node, before |-> fr.before, out |-> out, after |-> h[out]]

\* _walk, after the handler returned: schema is what it returned.
\*   ser_schema = schema.get("serialization")
\*   if ser_schema: schema["serialization"] = self._handle_ser_schemas(ser_schema, f)
\* _handle_ser_schemas copies the sidecar only when it has a child to walk.
Walk_handled ==
  /\ Running("_walk") /\ Top.pc = "handled" /\ ret # 0
  /\ LET fr == Top
         schema == ret
         ser == IF Has(heap[schema], "serialization")
                THEN ChildOf(heap[schema], "serialization") ELSE 0
     IN IF ser # 0 /\ Truthy(heap, ser)
        THEN IF Has(heap[ser], "schema") \/ Has(heap[ser], "return_schema")
             THEN /\ heap' = CopyHeap(heap, ser)
                  /\ org' = CopyOrg(heap, org, ser)
                  /\ stack' = Append(SetTop([fr EXCEPT !.pc = "ser", !.cur = schema]),
                                     CallHandler(_copy_schema(heap, ser), _handle_ser_schemas,
                                                 fr.wid, TRUE))
                  /\ ret' = 0
                  /\ UNCHANGED wlog
             ELSE /\ heap' = SetItem(heap, schema, "serialization", Ref(ser))
                  /\ stack' = Pop /\ ret' = schema
                  /\ wlog' = Append(wlog, WalkDone(fr, heap', schema))
                  /\ UNCHANGED org
        ELSE /\ stack' = Pop /\ ret' = schema
             /\ wlog' = Append(wlog, WalkDone(fr, heap, schema))
             /\ UNCHANGED <<heap, org>>
  /\ UNCHANGED <<heap0, copy, tf, status, result, nwalk, log, dlog>>

\* _walk, after _handle_ser_schemas returned: the assignment and the return.
Walk_serialization ==
  /\ Running("_walk") /\ Top.pc = "ser" /\ ret # 0
  /\ LET fr == Top
     IN /\ heap' = SetItem(heap, fr.cur, "serialization", Ref(ret))
        /\ stack' = Pop /\ ret' = fr.cur
        /\ wlog' = Append(wlog, WalkDone(fr, heap', fr.cur))
  /\ UNCHANGED <<org, heap0, copy, tf, status, result, nwalk, log, dlog>>

\* Whether the guard of an operation lets it run on the dict.
Taken(h, id, op) ==
  CASE op.guard = "default" -> TRUE
    [] op.guard = "truthy" -> Has(h[id], op.key) /\ Truthy(h, ChildOf(h[id], op.key))
    [] OTHER -> Has(h[id], op.key)

\* A handler reaches its next child operation, or its return.
Handler_op ==
  /\ Running("handler") /\ Top.pc = "op" /\ ret = 0
  /\ LET fr == Top
     IN IF fr.pi > Len(fr.plan)
        THEN /\ stack' = Pop /\ ret' = fr.node /\ UNCHANGED status
        ELSE LET op == fr.plan[fr.pi]
             IN IF op.guard = "always" /\ ~Has(heap[fr.node], op.key)
                THEN /\ status' = "fault" /\ stack' = << >> /\ UNCHANGED ret
                ELSE IF Taken(heap, fr.node, op)
                THEN /\ stack' = SetTop([fr EXCEPT !.pc = "loop", !.i = 1, !.acc = << >>,
                                           !.items = IF Has(heap[fr.node], op.key)
                                                     THEN heap[fr.node][op.key].items
                                                     ELSE << >>])
                     /\ UNCHANGED <<ret, status>>
                ELSE /\ stack' = SetTop([fr EXCEPT !.pi = @ + 1])
                     /\ UNCHANGED <<ret, status>>
  /\ UNCHANGED <<heap, org, heap0, copy, tf, result, nwalk, log, wlog, dlog>>

\* The entry a handler puts in the list or dict it rebuilds, for the entry e
\* of the old one: the walked schema (or the copied record) in place of e's,
\* the label of a (schema, label) tuple and the key of a dict entry kept.
\* A faulty variant: the label of a (schema, label) choice and the key of a dict entry are lost
RebuiltBare(e, id) == El(id)
Rebuilt(e, id) == [e EXCEPT !.id = id]

\* A handler takes the next entry of the child it is rebuilding and walks it,
\* or, at the end, writes the rebuilt child back.
Handler_entry ==
  /\ Running("handler") /\ Top.pc = "loop" /\ ret = 0
  /\ LET fr == Top
         op == fr.plan[fr.pi]
     IN IF fr.i > Len(fr.items)
        THEN /\ heap' = IF op.skip /\ fr.acc = << >> THEN heap
                        ELSE SetItem(heap, fr.node, op.key, [kind |-> op.kind, items |-> fr.acc])
             /\ stack' = SetTop([fr EXCEPT !.pc = "op", !.pi = @ + 1])
             /\ UNCHANGED org
        ELSE LET e == fr.items[fr.i]
                 site == Site(fr.wid, TypeOf(heap[fr.node]), op.key, fr.i, fr.side)
             IN IF e.id = 0
                THEN \* a tagged-union choice that is a str or an int
                     /\ stack' = SetTop([fr EXCEPT !.acc = Append(@, e), !.i = @ + 1])
                     /\ UNCHANGED <<heap, org>>
                ELSE IF op.sub # ""
                THEN \* replaced_field = self._copy_schema(v); ... self.walk(v[sub], f)
                     /\ heap' = CopyHeap(heap, e.id)
                     /\ org' = CopyOrg(heap, org, e.id)
                     /\ stack' = Append(SetTop([fr EXCEPT !.pc = "wait",
                                                          !.cur = _copy_schema(heap, e.id)]),
                                        walk(ChildOf(heap[e.id], op.sub), site))
                ELSE /\ stack' = Append(SetTop([fr EXCEPT !.pc = "wait"]), walk(e.id, site))
                     /\ UNCHANGED <<heap, org>>
  /\ UNCHANGED <<heap0, copy, tf, ret, status, result, nwalk, log, wlog, dlog>>

\* walk returned to a handler.
Handler_walked ==
  /\ Running("handler") /\ Top.pc = "wait" /\ ret # 0
  /\ LET fr == Top
         op == fr.plan[fr.pi]
         e == fr.items[fr.i]
     IN IF op.sub # ""
        THEN /\ heap' = SetItem(heap, fr.cur, op.sub, Ref(ret))
             /\ stack' = SetTop([fr EXCEPT !.pc = "loop", !.i = @ + 1,
                                          !.acc = Append(@, Rebuilt(e, fr.cur))])
        ELSE /\ stack' = SetTop([fr EXCEPT !.pc = "loop", !.i = @ + 1,
                                          !.acc = Append(@, Rebuilt(e, ret))])
             /\ UNCHANGED heap
  /\ ret' = 0
  /\ UNCHANGED <<org, heap0, copy, tf, status, result, nwalk, log, wlog, dlog>>

\* if "schema_ref" in definition and "ref" in definition
IsIndirectReference(h, definition) ==
  Has(h[definition], "schema_ref") /\ Has(h[definition], "ref")

\* if "ref" in updated_definition
\* A faulty variant: every updated definition is retained
HasRefAlways(h, updated_definition) == TRUE
HasRef(h, updated_definition) == Has(h[updated_definition], "ref")

\* if not new_definitions and len(schema) == 3
\* A faulty variant: the container's further attributes are not looked at
IsTrivialAnyLength(h, schema, new_definitions) == new_definitions = << >>
IsTrivial(h, schema, new_definitions) ==
  new_definitions = << >> /\ Cardinality(DOMAIN h[schema]) = 3

\* handle_definitions_schema: the next definition is walked, or, after the
\* last one, the inner schema.
Definitions_entry ==
  /\ Running("definitions") /\ Top.pc = "loop" /\ ret = 0
  /\ LET fr == Top
     IN IF fr.i <= Len(fr.items)
        THEN LET definition == fr.items[fr.i].id
                 site == Site(fr.wid, "definitions", "definitions", fr.i, FALSE)
             IN IF IsIndirectReference(heap, definition)
                THEN stack' = Append(SetTop([fr EXCEPT !.pc = "indirect",
                                                       !.acc = Append(@, El(definition))]),
                                     walk(definition, site))
                ELSE stack' = Append(SetTop([fr EXCEPT !.pc = "updated"]),
                                     walk(definition, site))
        ELSE stack' = Append(SetTop([fr EXCEPT !.pc = "inner"]),
                             walk(ChildOf(heap[fr.node], "schema"),
                                  Site(fr.wid, "definitions", "schema", 1, FALSE)))
  /\ UNCHANGED <<heap, org, heap0, copy, tf, ret, status, result, nwalk, log, wlog, dlog>>

\* handle_definitions_schema: walk returned for a definition.
Definitions_walked ==
  /\ Running("definitions") /\ Top.pc \in {"indirect", "updated"} /\ ret # 0
  /\ LET fr == Top
     IN stack' = SetTop([fr EXCEPT !.pc = "loop", !.i = @ + 1, !.res = Append(@, ret),
                                  !.acc = IF fr.pc = "updated" /\ HasRef(heap, ret)
                                          THEN Append(@, El(ret)) ELSE @])
  /\ ret' = 0
  /\ UNCHANGED <<heap, org, heap0, copy, tf, status, result, nwalk, log, wlog, dlog>>

DefinitionsDone(fr, h, inner, out) ==
  [wid |-> fr.wid, schema |-> fr.node,
   entries |-> [k \in 1..Len(fr.items) |-> fr.items[k].id], res |-> fr.res,
   new_definitions |-> [k \in 1..Len(fr.acc) |-> fr.acc[k].id],
   inner |-> inner, out |-> out, before |-> fr.before, after |-> h[out]]

\* handle_definitions_schema: walk returned for the inner schema; the return.
Definitions_return ==
  /\ Running("definitions") /\ Top.pc = "inner" /\ ret # 0
  /\ LET fr == Top
         new_inner_schema == ret
         new_schema == _copy_schema(heap, fr.node)
         h1 == SetItem(SetItem(CopyHeap(heap, fr.node), new_schema, "schema", Ref(new_inner_schema)),
                       new_schema, "definitions", [kind |-> "list", items |-> fr.acc])
     IN IF IsTrivial(heap, fr.node, fr.acc)
        THEN /\ ret' = new_inner_schema
             /\ dlog' = Append(dlog, DefinitionsDone(fr, heap, new_inner_schema, new_inner_schema))
             /\ UNCHANGED <<heap, org>>
        ELSE /\ heap' = h1
             /\ org' = CopyOrg(heap, org, fr.node)
             /\ ret' = new_schema
             /\ dlog' = Append(dlog, DefinitionsDone(fr, h1, new_inner_schema, new_schema))
  /\ stack' = Pop
  /\ UNCHANGED <<heap0, copy, tf, status, result, nwalk, log, wlog>>

Next ==
  \/ walk_core_schema
  \/ Return
  \/ FCall
  \/ FResume
  \/ Walk_dispatch
  \/ Walk_handled
  \/ Walk_serialization
  \/ Handler_op
  \/ Handler_entry
  \/ Handler_walked
  \/ Definitions_entry
  \/ Definitions_walked
  \/ Definitions_return

Spec == Init /\ [][Next]_vars

---------------------------------------------------------------------------
(* Vocabulary of the properties *)

Done == status = "done"
Last(sq) == sq[Len(sq)]
InputIds == 1..Len(heap0)
RootType == TypeOf(heap0[1])

\* The transform calls recurse on every node and returns what recurse returned.
IsIdentityTransform == \A c \in Classes : tf[c] = "recurse"
\* The transform calls recurse exactly once on every node it is handed.
RecursesOnce == \A c \in Classes : tf[c] \in {"recurse", "strip"}

\* Number of times the transform was handed a node descending from input object o.
Visits(o) == Len(SelectSeq(log, LAMBDA e : e.org = o))
\* The same, counting only the calls made by the sidecar pass.
SidecarVisits(o) == Len(SelectSeq(log, LAMBDA e : e.org = o /\ Last(e.path).side))

\* Structural equality of the tree under a in heap ha and the tree under b in hb.
RECURSIVE DeepEqual(_, _, _, _)
DeepEqual(ha, a, hb, b) ==
  /\ DOMAIN ha[a] = DOMAIN hb[b]
  /\ \A k \in DOMAIN ha[a] :
       LET va == ha[a][k]
           vb == hb[b][k]
       IN /\ va.kind = vb.kind
          /\ Len(va.items) = Len(vb.items)
          /\ \A i \in 1..Len(va.items) :
               LET x == va.items[i]
                   y == vb.items[i]
               IN /\ x.key = y.key /\ x.lab = y.lab /\ x.tup = y.tup
                  /\ (x.id = 0) = (y.id = 0)
                  /\ x.id # 0 => DeepEqual(ha, x.id, hb, y.id)

\* The children section 4.4 declares for a node of a type, in the order of its
\* table: attribute, and for an attribute holding records the attribute of the
\* record that holds the child.
Decl(key, sub) == [key |-> key, sub |-> sub]
DeclaredChildren(t) ==
  CASE t \in {"list", "set", "frozenset", "generator", "tuple"} -> << Decl("items_schema", "") >>
    [] t = "dict" -> << Decl("keys_schema", ""), Decl("values_schema", "") >>
    [] t \in {"union", "tagged-union"} -> << Decl("choices", "") >>
    [] t = "chain" -> << Decl("steps", "") >>
    [] t = "lax-or-strict" -> << Decl("lax_schema", ""), Decl("strict_schema", "") >>
    [] t = "json-or-python" -> << Decl("json_schema", ""), Decl("python_schema", "") >>
    [] t \in {"model-fields", "typed-dict", "dataclass-args"} ->
         << Decl("extras_schema", ""), Decl("computed_fields", "return_schema"),
            Decl("fields", "schema") >>
    [] t = "arguments" ->
         << Decl("arguments_schema", "schema"), Decl("var_args_schema", ""),
            Decl("var_kwargs_schema", "") >>
    [] t = "call" -> << Decl("arguments_schema", ""), Decl("return_schema", "") >>
    [] t \in {"function-before", "function-after", "function-wrap", "function-plain"} ->
         << Decl("schema", ""), Decl("json_schema_input_schema", "") >>
    [] t = "definitions" -> << Decl("definitions", ""), Decl("schema", "") >>
    [] OTHER -> << Decl("schema", "") >>

\* The input nodes: the dicts of the input that are schemas, not sidecars and
\* not field or parameter records.
SidecarIds ==
  { ChildOf(heap0[i], "serialization") : i \in {j \in InputIds : Has(heap0[j], "serialization")} }
RecordTypes == {"model-field", "typed-dict-field", "dataclass-field", "computed-field"}
IsInputNode(i) ==
  /\ i \in InputIds /\ i \notin SidecarIds
  /\ Has(heap0[i], "type") /\ TypeOf(heap0[i]) \notin RecordTypes

\* The declared children of input node n.
ChildrenOf(n) ==
  LET o == heap0[n]
      d == DeclaredChildren(TypeOf(o))
  IN UNION { { IF d[k].sub = "" THEN o[d[k].key].items[i].id
               ELSE ChildOf(heap0[o[d[k].key].items[i].id], d[k].sub)
               : i \in {j \in 1..Len(o[d[k].key].items) : o[d[k].key].items[j].id # 0} }
             : k \in {j \in 1..Len(d) : Has(o, d[j].key)} }

---------------------------------------------------------------------------
(* C1: under copy=True, for a transform that never writes to a node it is  *)
(* handed, the caller's input tree is after the call deep-equal to what it *)
(* was before the call.                                                    *)
C1_InputNotMutated == (Done /\ copy) => DeepEqual(heap0, 1, heap, 1)

(* C2: every node offered to the transform that carries a sidecar with a   *)
(* "schema" and/or "return_schema" has each of these passed to the         *)
(* transform exactly once by the sidecar pass (stated here for transforms  *)
(* that call recurse exactly once on every node, one of the cases covered).*)
C2_SidecarPassOnce ==
  (Done /\ RecursesOnce) =>
    \A i \in 1..Len(log) : \A o \in log[i].sc : SidecarVisits(o) = 1

(* C5: when f calls recurse exactly once on the node it is handed and      *)
(* returns the result, f is invoked exactly once with the root.            *)
C5_RootVisitedOnce == (Done /\ tf[Class(RootType)] = "recurse") => Visits(1) = 1

(* C6: when the transform calls recurse exactly once on every node, every  *)
(* declared child of every node of a section 4.4 shape is passed to the    *)
(* transform exactly once per walk.                                        *)
C6_FullCoverage ==
  (Done /\ RecursesOnce) =>
    \A n \in {i \in InputIds : IsInputNode(i) /\ TypeOf(heap0[i]) # "definitions"} :
      \A c \in ChildrenOf(n) : Visits(c) = 1

HandlerCalls(wid) ==
  SelectSeq(log, LAMBDA e : Last(e.path).wid = wid /\ ~Last(e.path).side)

C4_RoundTrip == (Done /\ IsIdentityTransform) => DeepEqual(heap0, 1, heap, result)

\* No definitions container of the input has an entry without "ref", and none
\* has an empty definitions list and only its three baseline attributes.
NothingToPrune ==
  \A i \in InputIds :
    (Has(heap0[i], "type") /\ TypeOf(heap0[i]) = "definitions") =>
      /\ \A k \in 1..Len(heap0[i]["definitions"].items) :
           Has(heap0[heap0[i]["definitions"].items[k].id], "ref")
      /\ ~(heap0[i]["definitions"].items = << >> /\ Cardinality(DOMAIN heap0[i]) = 3)

(* C4, amended: the round trip holds for the trees in which every entry of *)
(* every definitions container carries "ref" and no definitions container  *)
(* has an empty list and only its three baseline attributes (an entry      *)
(* without "ref" is dropped, and a container left with no entry and no     *)
(* further attribute is replaced by its inner node).                       *)
C4_RoundTripWithoutPruning ==
  (Done /\ IsIdentityTransform /\ NothingToPrune) => DeepEqual(heap0, 1, heap, result)

C4_Witness ==
  /\ Done /\ IsIdentityTransform /\ NothingToPrune
  /\ RootType = "definitions"
  /\ heap0[1]["definitions"].items # << >>
  /\ Len(log) > 3

(* C7, as claimed: under copy=False with the identity transform the object *)
(* returned is the root object passed in.                                  *)
C7_SameRoot == (Done /\ ~copy /\ IsIdentityTransform) => result = 1

\* What the identity walk returns for input node n under copy=False: n, or, for a
\* definitions container that collapses, what it returns for its inner node.
RECURSIVE Returned(_)
Returned(n) ==
  LET o == heap0[n]
  IN IF /\ TypeOf(o) = "definitions"
        /\ Cardinality(DOMAIN o) = 3
        /\ \A k \in 1..Len(o["definitions"].items) :
             LET e == o["definitions"].items[k].id
             IN /\ ~(Has(heap0[e], "schema_ref") /\ Has(heap0[e], "ref"))
                /\ ~Has(heap0[Returned(e)], "ref")
     THEN Returned(ChildOf(o, "schema"))
     ELSE n

(* C7, amended: under copy=False with the identity transform the object    *)
(* returned is the root object, unless the root is a definitions container *)
(* that collapses (no entry is retained and it has only its three baseline *)
(* attributes): then it is the object returned for its inner node, which   *)
(* is not the root.                                                        *)
C7_SameRootUnlessCollapsed ==
  (Done /\ ~copy /\ IsIdentityTransform) =>
    /\ result = Returned(1)
    /\ (result # 1) = (RootType = "definitions" /\ Returned(1) # 1)

C7_Witness ==
  /\ Done /\ ~copy /\ IsIdentityTransform
  /\ RootType = "definitions" /\ result # 1 /\ result = ChildOf(heap0[1], "schema")

\* The list section 4.5 prescribes for the entries from the k-th on.
RECURSIVE Retained(_, _)
Retained(d, k) ==
  IF k > Len(d.entries) THEN << >>
  ELSE LET e == d.entries[k]
           r == d.res[k]
       IN (IF Has(heap[e], "schema_ref") /\ Has(heap[e], "ref") THEN << e >>
           ELSE IF Has(heap[r], "ref") THEN << r >>
           ELSE << >>) \o Retained(d, k + 1)

(* C8: the list the definitions handler builds is, in the original order,  *)
(* every reference placeholder as the input entry itself (which was passed *)
(* to the transform once, its result discarded) and, for every other       *)
(* entry, the transform's result if and only if the result carries "ref".  *)
C8_DefinitionsRetention ==
  \A i \in 1..Len(dlog) :
    LET d == dlog[i]
    IN /\ Len(d.res) = Len(d.entries)
       /\ d.new_definitions = Retained(d, 1)
       /\ \A k \in 1..Len(d.entries) :
            /\ Len(SelectSeq(log, LAMBDA e :
                     Last(e.path) = Site(d.wid, "definitions", "definitions", k, FALSE))) = 1
            /\ (copy /\ d.entries[k] \in InputIds
                  /\ Has(heap0[d.entries[k]], "schema_ref") /\ Has(heap0[d.entries[k]], "ref")) =>
                 heap[d.entries[k]] = heap0[d.entries[k]]

C8_Witness ==
  \E i \in 1..Len(dlog) :
    LET d == dlog[i]
    IN /\ Len(d.entries) = 3
       /\ Len(d.new_definitions) = 2
       /\ d.new_definitions[1] = d.entries[2]
       /\ d.res[2] # d.entries[2]
       /\ d.new_definitions[2] = d.res[3]

(* C9: recurse on a definitions container returns the transformed inner    *)
(* node in place of the container if and only if the rebuilt list is empty *)
(* and the container has no attribute beyond type, schema and definitions; *)
(* otherwise it returns a container with the rebuilt list, the transformed *)
(* inner node and every other attribute kept.                              *)
C9_DefinitionsCollapse ==
  \A i \in 1..Len(dlog) :
    LET d == dlog[i]
    IN /\ (d.out = d.inner) = (d.new_definitions = << >> /\ Cardinality(DOMAIN d.before) = 3)
       /\ d.out # d.inner =>
            /\ DOMAIN d.after = DOMAIN d.before
            /\ d.after["definitions"] = ListOf(d.new_definitions)
            /\ d.after["schema"] = Ref(d.inner)
            /\ \A k \in DOMAIN d.before \ {"schema", "definitions"} : d.after[k] = d.before[k]
            /\ org[d.out] = org[d.schema]
       /\ \A j \in 1..Len(wlog) : wlog[j].wid = d.wid => wlog[j].out = d.out

C9_Witness ==
  \E i \in 1..Len(dlog) :
    /\ dlog[i].out = dlog[i].inner
    /\ dlog[i].entries # << >>
    /\ \E j \in 1..Len(wlog) : wlog[j].wid = dlog[i].wid

\* Position of an attribute among the declared children of a type.
KeyPos(t, key) ==
  LET d == DeclaredChildren(t)
  IN IF \E k \in 1..Len(d) : d[k].key = key
     THEN CHOOSE k \in 1..Len(d) : d[k].key = key
     ELSE 0

\* Site a does not come after site b in the order of one default descent:
\* primary children in declared order, then the sidecar's "schema", then its
\* "return_schema".
NotAfter(a, b) ==
  IF a.side # b.side THEN ~a.side
  ELSE IF a.side THEN ~(a.key = "return_schema" /\ b.key = "schema")
  ELSE /\ KeyPos(a.typ, a.key) > 0 /\ KeyPos(b.typ, b.key) > 0
       /\ \/ KeyPos(a.typ, a.key) < KeyPos(b.typ, b.key)
          \/ KeyPos(a.typ, a.key) = KeyPos(b.typ, b.key) /\ a.idx <= b.idx

(* C10: within one default descent (one _walk) on a node, the transform is *)
(* invoked on the primary children and their descendants, in declared      *)
(* order, before it is invoked on the children of the node's sidecar, and  *)
(* on the sidecar's "schema" before its "return_schema".  The log grows by  *)
(* one invocation at a time, so the newest invocation is compared, in      *)
(* every state, with every invocation before it.                           *)
C10_SidecarLast ==
  \A i \in 1..Len(log) :
    LET new == Last(log).path
    IN \A k \in 1..Len(log[i].path) :
         (k <= Len(new) /\ log[i].path[k].wid # 0 /\ new[k].wid = log[i].path[k].wid) =>
           NotAfter(log[i].path[k], new[k])

C10_Witness ==
  \E i \in 1..Len(log) : \E j \in i..Len(log) : \E k \in j..Len(log) :
    LET a == Last(log[i].path)
        b == Last(log[j].path)
        c == Last(log[k].path)
    IN /\ a.wid # 0 /\ a.wid = b.wid /\ b.wid = c.wid
       /\ ~a.side /\ b.side /\ b.key = "schema" /\ c.side /\ c.key = "return_schema"

====
